---- MODULE Spec2Model ----
(* A model of the build engine of c_dev_tools (src/src/builder.rs,           *)
(* src/src/config.rs, src/src/main.rs): the orchestrator Builder::build, the  *)
(* hash store of detect_changed_files, the parallel compile phase of          *)
(* compile_sources and the four link sub-phases of link_targets.              *)
EXTENDS FiniteSets, Integers, Sequences, TLC

----------------------------------------------------------------------------
(* Bounds of the model                                                       *)

MaxBuilds == 2
MaxEdits == 1
MaxFaults == 1
HostCpus == 2
MaxJobs == 2

----------------------------------------------------------------------------
(* Paths, files and the manifest                                             *)

\* A path inside the project directory: <project_dir>/<stem>.<ext>
ProjPath(stem, ext) == [root |-> "project", stem |-> stem, ext |-> ext]

MainC == ProjPath("src/main", "c")
UtilC == ProjPath("src/util", "c")
MC == ProjPath("src/m", "c")
UtilCpp == ProjPath("src/util", "cpp")

Sources == {MainC, UtilC, MC}

\* the versions of a source file's text; 0 stands for no such file
Contents == {1, 2}

\* what content holds for a file that exists and cannot be opened for reading
Unreadable == -1

\* A target of the manifest: its name and its src patterns. A pattern is
\* written as the list of paths the glob library yields for it, in the glob
\* library's order, when every one of them exists.
\* An Option is the empty sequence (None) or a sequence of one value (Some);
\* an Option<Vec<_>> or Option<HashMap<_, _>> that is only ever read through
\* unwrap_or_default() is its list, None being the empty list. include_dirs
\* are Dir records, defines are <<key, value>> pairs.
TargetWith(name, src, include_dirs, defines, extra_flags) ==
    [name |-> name, src |-> src, include_dirs |-> include_dirs,
     defines |-> defines, extra_flags |-> extra_flags]

Target(name, src) == TargetWith(name, src, << >>, << >>, << >>)

\* an executable or a test: the target with its link_dirs and libs
Linking(target, link_dirs, libs) ==
    [name |-> target.name, src |-> target.src, include_dirs |-> target.include_dirs,
     defines |-> target.defines, extra_flags |-> target.extra_flags,
     link_dirs |-> link_dirs, libs |-> libs]

\* a directory named in the manifest: its text, and whether the text is an
\* absolute path
Dir(text, absolute) == [text |-> text, absolute |-> absolute]

\* [build] of the manifest
BuildSettings(compiler, c_standard, opt, debug_info, werror, extra_flags) ==
    [compiler |-> compiler, c_standard |-> c_standard,
     optimization_level |-> opt, debug_info |-> debug_info,
     warnings_as_errors |-> werror, extra_flags |-> extra_flags]

\* one target of each kind; the shared library and the test list the same source
FullManifest ==
    [build |-> BuildSettings("gcc", <<"c11">>, <<2>>, <<TRUE>>, << >>, <<"-Wall">>),
     executable |-> << Linking(TargetWith("app", << <<MainC>> >>,
                                          << Dir("include", FALSE) >>, << >>, << >>),
                               << Dir("vendor", FALSE) >>, <<"z">>) >>,
     static_lib |-> << TargetWith("m", << <<MC>> >>, << >>,
                                  << <<"QUIET", "">> >>, << >>) >>,
     shared_lib |-> << TargetWith("s", << <<UtilC>> >>, << >>,
                                  << <<"API", "1">> >>, << >>) >>,
     test       |-> << Linking(TargetWith("t", << <<UtilC>> >>, << >>, << >>,
                                          <<"-pthread">>),
                               << Dir("/opt/lib", TRUE) >>, <<"pthread", "z">>) >>]

\* one executable with two patterns
AppManifest ==
    [build |-> BuildSettings("clang", << >>, << >>, <<FALSE>>, <<TRUE>>, << >>),
     executable |-> << TargetWith("app", << <<MainC>>, <<UtilC>> >>,
                                  << Dir("/opt/inc", TRUE) >>, << >>, <<"-Wextra">>) >>,
     static_lib |-> << >>, shared_lib |-> << >>, test |-> << >>]

\* one executable whose two patterns, src/util.c and src/util.cpp, name two
\* sources of one directory with the same file stem
TwinManifest ==
    [build |-> BuildSettings("g++", << >>, << >>, << >>, << >>, << >>),
     executable |-> << Target("twin", << <<UtilC>>, <<UtilCpp>> >>) >>,
     static_lib |-> << >>, shared_lib |-> << >>, test |-> << >>]

\* one static library with two defines, two include directories and two
\* flags of its own
DefinesManifest ==
    [build |-> BuildSettings("cc", <<"c99">>, <<0>>, <<FALSE>>, <<TRUE>>,
                             <<"-Wall", "-pedantic">>),
     executable |-> << >>,
     static_lib |-> << TargetWith("d", << <<MC>> >>,
                                  << Dir("inc", FALSE), Dir("/usr/inc", TRUE) >>,
                                  << <<"A", "">>, <<"B", "2">> >>,
                                  <<"-fno-common", "-funroll-loops">>) >>,
     shared_lib |-> << >>, test |-> << >>]

EmptyManifest ==
    [build |-> BuildSettings("gcc", << >>, << >>, << >>, << >>, << >>),
     executable |-> << >>, static_lib |-> << >>, shared_lib |-> << >>, test |-> << >>]

Manifests == {FullManifest, AppManifest, EmptyManifest}

\* format!("exe:{}", target.name) and its three siblings
TargetKey(kind, name) == <<kind, name>>

Kinds == <<"static", "shared", "exe", "test">>

TargetsOfKind(cfg, kind) ==
    CASE kind = "exe" -> cfg.executable
      [] kind = "static" -> cfg.static_lib
      [] kind = "shared" -> cfg.shared_lib
      [] kind = "test" -> cfg.test

AllKeys(cfg) ==
    UNION { { TargetKey(k, TargetsOfKind(cfg, k)[i].name) :
                i \in 1..Len(TargetsOfKind(cfg, k)) } :
            k \in {"exe", "static", "shared", "test"} }

----------------------------------------------------------------------------
(* Pure helpers                                                              *)

RECURSIVE SeqFilter(_, _)
\* the subsequence of s whose elements are in the set keep, order preserved
SeqFilter(s, keep) ==
    IF s = << >> THEN << >>
    ELSE IF Head(s) \in keep THEN <<Head(s)>> \o SeqFilter(Tail(s), keep)
         ELSE SeqFilter(Tail(s), keep)

RECURSIVE Concat(_)
Concat(ss) == IF ss = << >> THEN << >> ELSE Head(ss) \o Concat(Tail(ss))

Range(s) == { s[i] : i \in 1..Len(s) }

Max(a, b) == IF a >= b THEN a ELSE b

\* file.to_string_lossy().to_string(): the key of a source in the hash store.
\* Every path of the model is valid UTF-8, where the conversion keeps the
\* path's text; the key is tagged so that a key is not a path.
PathStr(p) == <<"str", p.root, p.stem, p.ext>>

\* format!("{:x}", Sha256(contents)): lowercase hex of the digest
Sha256Hex(c) == <<"sha256", c>>

\* source.strip_prefix(project_dir).unwrap_or(source), joined to
\* <build_dir>/obj, then with_extension("o"): the extension of the source is
\* replaced. Joining an absolute path (a source outside the project) replaces
\* the whole left side.
ObjectFile(s) ==
    IF s.root = "project"
    THEN [root |-> "obj", stem |-> s.stem, ext |-> "o"]
    ELSE [root |-> s.root, stem |-> s.stem, ext |-> "o"]

ObjectPaths == { ObjectFile(s) : s \in Sources }

----------------------------------------------------------------------------
(* State                                                                     *)

VARIABLES
    config,         \* the manifest in cbuild.toml
    configuration,  \* Builder.configuration: "debug" or "release"
    platform,       \* cfg!(target_os) of the build of the tool
    jobs_arg,       \* the --jobs option of the command line, 0 = not given
    budget,         \* how many builds, edits and failures this behaviour may have
    content,        \* file system: content of each source, 0 = no such file
    hash_file,      \* <build_dir>/file_hashes.json
    objects,        \* <build_dir>/obj: content each object was compiled from, 0 = none
    object_cmd,     \* history: the command that wrote each object last in this invocation
    artifacts,      \* target keys whose artifact exists under <build_dir>
    build_dir,      \* whether the directory <build_dir> exists
    jobs,           \* Builder.jobs of the running invocation
    incremental,    \* Builder.incremental of the running invocation
    pc,             \* position of build(): "idle" between invocations
    result,         \* what the last build() returned, "none" before the first
    error_arg,      \* the string its error variant carries, "" for none
    source_files,   \* build(): the resolved-source map
    changed_files,  \* build(): the changed map
    status,         \* compile_sources: state of each (target, source) task
    invoked,        \* tasks whose compiler child process was spawned
    cmds,           \* history: the command line of each spawned compiler
    error_map,      \* compile_sources: error_map, source -> stderr
    total_pb,       \* position of the global progress bar
    target_pb,      \* position of each target's progress bar
    link_idx,       \* index of the next target in the running link sub-phase
    phases,         \* history: phases of this invocation, with their outcome
    link_log,       \* history: archive / link invocations of this invocation
    link_cmds,      \* history: their command lines and how each exited
    written,        \* history: object paths written in this invocation
    hash_before,    \* history: hash_file when this invocation started
    dir_before,     \* history: build_dir when this invocation started
    hash_write_pc,  \* history: the phases during which hash_file was written
    prev,           \* history: how the invocation before this one ended
    edited,         \* history: sources modified since this invocation started
    cleaned,        \* history: the last run of the clean command
    builds,         \* number of build() invocations so far
    edits,          \* number of source edits so far
    faults          \* number of environment failures so far

env == <<config, configuration, platform, jobs_arg, budget>>
disk == <<content, hash_file, objects, object_cmd, artifacts, build_dir>>
builder == <<jobs, incremental>>
run == <<source_files, changed_files, status, invoked, cmds, error_map, total_pb,
         target_pb, link_idx>>
hist == <<phases, link_log, link_cmds, written, hash_before, dir_before,
         hash_write_pc>>
past == <<prev, edited, cleaned>>
counters == <<builds, edits, faults>>
vars == <<env, disk, builder, pc, result, error_arg, run, hist, past, counters>>

NoStore == [exists |-> FALSE, map |-> << >>]
Store(m) == [exists |-> TRUE, map |-> m]

EmptyMap == << >>

\* what is remembered of an invocation when the next one starts: whether it
\* was an incremental build that returned Ok, and the sources modified
\* after it started
Ended(r, inc, mod) == [clean |-> (r = "Ok" /\ inc), edited |-> mod]
NoBuild == Ended("none", FALSE, {})

\* what is remembered of a run of the clean command: how many builds had
\* been invoked, what the last of them had returned, which artifacts were on
\* disk, and what clean returned; at = -1 when clean has not run
Cleaned(at, built, had, returned) ==
    [at |-> at, built |-> built, had |-> had, returned |-> returned]
NoClean == Cleaned(-1, "none", {}, "none")

\* The state before the first build of a fresh project: no build directory.
\* j is the --jobs option, b the budget of the behaviour.
InitOn(manifests, files, confs, plats, j, b) ==
    /\ config \in manifests
    /\ configuration \in confs
    /\ platform \in plats
    /\ jobs_arg = j
    /\ budget = b
    /\ content = [f \in files |-> 1]
    /\ hash_file = NoStore
    /\ objects = [o \in { ObjectFile(f) : f \in files } |-> 0]
    /\ object_cmd = [o \in { ObjectFile(f) : f \in files } |-> << >>]
    /\ artifacts = {}
    /\ build_dir = FALSE
    /\ jobs = 1
    /\ incremental = FALSE
    /\ pc = "idle"
    /\ result = "none"
    /\ error_arg = ""
    /\ source_files = EmptyMap
    /\ changed_files = EmptyMap
    /\ status = EmptyMap
    /\ invoked = {}
    /\ cmds = EmptyMap
    /\ error_map = EmptyMap
    /\ total_pb = 0
    /\ target_pb = EmptyMap
    /\ link_idx = 1
    /\ phases = << >>
    /\ link_log = << >>
    /\ link_cmds = << >>
    /\ written = {}
    /\ hash_before = NoStore
    /\ dir_before = FALSE
    /\ hash_write_pc = {}
    /\ prev = NoBuild
    /\ cleaned = NoClean
    /\ edited = {}
    /\ builds = 0
    /\ edits = 0
    /\ faults = 0

\* --jobs is not given, so the builder gets the host's CPU count
InitWith(j, b) == InitOn(Manifests, Sources, {"debug"}, {"linux"}, j, b)

Init == InitWith(0, [builds |-> MaxBuilds, edits |-> MaxEdits, faults |-> MaxFaults])

\* one build with an explicit --jobs
InitJobs ==
    \E j \in 1..MaxJobs : InitWith(j, [builds |-> 1, edits |-> 1, faults |-> MaxFaults])

----------------------------------------------------------------------------
(* Source resolution (config.rs)                                             *)

Existing == { f \in DOMAIN content : content[f] # 0 }

\* The text of a pattern of the manifest. The patterns of the model are
\* literal paths relative to the project, each matching the one file it
\* names: src/main.c for project/src/main.c.
PatternText(pattern) == pattern[1].stem \o "." \o pattern[1].ext

RECURSIVE Join(_)
\* patterns.join(", ")
Join(patterns) ==
    IF patterns = << >> THEN ""
    ELSE IF Len(patterns) = 1 THEN PatternText(patterns[1])
    ELSE PatternText(patterns[1]) \o ", " \o Join(Tail(patterns))

\* resolve_glob_patterns: the matches of every pattern, in manifest order,
\* not deduplicated; no match at all is NoSourceFiles.
resolve_glob_patterns(patterns) ==
    LET resolved_files ==
            Concat([i \in 1..Len(patterns) |-> SeqFilter(patterns[i], Existing)])
    IN  IF resolved_files = << >>
        THEN [ok |-> FALSE, error |-> "NoSourceFiles", arg |-> Join(patterns),
              files |-> << >>]
        ELSE [ok |-> TRUE, error |-> "none", arg |-> "", files |-> resolved_files]

TargetOfKey(cfg, key) ==
    LET ts == TargetsOfKind(cfg, key[1])
    IN  ts[CHOOSE i \in 1..Len(ts) : ts[i].name = key[2]]

\* the keys of the manifest in the order resolve_source_files goes through
\* its targets: executables, static libraries, shared libraries, tests
ResolveOrder(cfg) ==
    LET keysOf(kind) == [i \in 1..Len(TargetsOfKind(cfg, kind)) |->
                            TargetKey(kind, TargetsOfKind(cfg, kind)[i].name)]
    IN  keysOf("exe") \o keysOf("static") \o keysOf("shared") \o keysOf("test")

\* resolve_source_files that takes a manifest without targets for a failure
resolve_source_files_NeedsTarget(cfg) ==
    LET keys == AllKeys(cfg)
        res == [k \in keys |-> resolve_glob_patterns(TargetOfKey(cfg, k).src)]
    IN  IF keys = {} \/ \E k \in keys : ~res[k].ok
        THEN [ok |-> FALSE, error |-> "NoSourceFiles", arg |-> "", map |-> EmptyMap]
        ELSE [ok |-> TRUE, error |-> "none", arg |-> "",
              map |-> [k \in keys |-> res[k].files]]

\* BuildConfig::resolve_source_files: every target of the four lists, under
\* its key; the first target that resolves to nothing fails the whole call.
resolve_source_files(cfg) ==
    LET keys == AllKeys(cfg)
        order == ResolveOrder(cfg)
        res == [k \in keys |-> resolve_glob_patterns(TargetOfKey(cfg, k).src)]
        failed == { i \in 1..Len(order) : ~res[order[i]].ok }
        first == order[CHOOSE i \in failed : \A j \in failed : i <= j]
    IN  IF failed # {}
        THEN [ok |-> FALSE, error |-> res[first].error, arg |-> res[first].arg,
              map |-> EmptyMap]
        ELSE [ok |-> TRUE, error |-> "none", arg |-> "",
              map |-> [k \in keys |-> res[k].files]]

----------------------------------------------------------------------------
(* Change detection (builder.rs)                                             *)

\* calculate_file_hash: the hex digest of the file's bytes
calculate_file_hash(f) == Sha256Hex(content[f])

\* IsChanged without the comparison of line 193: only new files are changed
IsChanged_AbsentOnly(previous_hashes, f) ==
    PathStr(f) \notin DOMAIN previous_hashes

\* The test of lines 192-193: the key is absent from the previous map, or
\* the stored hash is not the hash just computed.
IsChanged(previous_hashes, f) ==
    \/ PathStr(f) \notin DOMAIN previous_hashes
    \/ previous_hashes[PathStr(f)] # calculate_file_hash(f)

\* ChangedMap that takes every source for changed once any file of the
\* project was modified since the previous build
ChangedMap_AnyFile(previous_hashes, srcs) ==
    LET changed(k) == SeqFilter(srcs[k], { f \in Range(srcs[k]) :
                                             \/ IsChanged(previous_hashes, f)
                                             \/ prev.edited # {} })
        keys == { k \in DOMAIN srcs : changed(k) # << >> }
    IN  [k \in keys |-> changed(k)]

\* The changed map: per target the changed files in resolved order; a target
\* whose list is empty gets no key.
ChangedMap(previous_hashes, srcs) ==
    LET changed(k) == SeqFilter(srcs[k], { f \in Range(srcs[k]) : IsChanged(previous_hashes, f) })
        keys == { k \in DOMAIN srcs : changed(k) # << >> }
    IN  [k \in keys |-> changed(k)]

\* NewHashes without the insert of line 198: the map that is saved is empty
NewHashes_NoInsert(srcs) == EmptyMap

\* new_hashes: every scanned file under its key
NewHashes(srcs) ==
    LET files == UNION { Range(srcs[k]) : k \in DOMAIN srcs }
    IN  [s \in { PathStr(f) : f \in files } |->
            calculate_file_hash(CHOOSE f \in files : PathStr(f) = s)]

PreviousHashes == IF hash_file.exists THEN hash_file.map ELSE EmptyMap

----------------------------------------------------------------------------
(* Builder::build, phase by phase                                            *)

Fault == faults < budget.faults /\ faults' = faults + 1

\* the position build() moves to when the phase called name returns Ok
PcAfter(name) ==
    CASE name = "load" -> "check"
      [] name = "check" -> "prepare"
      [] name = "prepare" -> "resolve"
      [] name = "resolve" -> "detect"
      [] name = "detect" -> "early"

Phase(name, outcome) == [name |-> name, outcome |-> outcome]

\* the last phase of the history gets its outcome
Finished(outcome) ==
    [phases EXCEPT ![Len(phases)] = Phase(phases[Len(phases)].name, outcome)]

\* The string or path an error variant carries. CompilerNotFound carries the
\* compiler of the manifest and ConfigNotFound the path of the manifest; the
\* texts of the other variants come from the operating system, the TOML
\* parser or the child process and are one opaque message here.
ErrorArg(err) ==
    CASE err = "CompilerNotFound" -> config.build.compiler
      [] err = "ConfigNotFound" -> "project/cbuild.toml"
      [] OTHER -> "message"

\* Fail that notes the error and lets build() go on with the next phase
Fail_Deferred(name, err) ==
    /\ Fault
    /\ phases' = Append(phases, Phase(name, "err"))
    /\ result' = err
    /\ error_arg' = ErrorArg(err)
    /\ pc' = PcAfter(name)

\* Fail with the `?` dropped: the error of the phase is ignored and build()
\* goes on with the next phase
Fail_Ignored(name, err) ==
    /\ Fault
    /\ phases' = Append(phases, Phase(name, "err"))
    /\ pc' = PcAfter(name)
    /\ UNCHANGED <<result, error_arg>>

\* the `?` of lines 58-79: build() returns err from the phase called name
Fail(name, err) ==
    /\ Fault
    /\ phases' = Append(phases, Phase(name, "err"))
    /\ result' = err
    /\ error_arg' = ErrorArg(err)
    /\ pc' = "idle"

\* num_cpus::get()
num_cpus == HostCpus

\* main: jobs.unwrap_or_else(num_cpus::get), Builder::new, set_incremental,
\* and the entry of build()
StartBuild ==
    /\ pc = "idle"
    /\ builds < budget.builds
    /\ builds' = builds + 1
    /\ jobs' = IF jobs_arg = 0 THEN num_cpus ELSE jobs_arg
    /\ incremental' \in BOOLEAN
    /\ pc' = "load"
    /\ result' = "running"
    /\ error_arg' = ""
    /\ source_files' = EmptyMap
    /\ changed_files' = EmptyMap
    /\ status' = EmptyMap
    /\ invoked' = {}
    /\ cmds' = EmptyMap
    /\ error_map' = EmptyMap
    /\ total_pb' = 0
    /\ target_pb' = EmptyMap
    /\ link_idx' = 1
    /\ phases' = << >>
    /\ link_log' = << >>
    /\ link_cmds' = << >>
    /\ written' = {}
    /\ hash_before' = hash_file
    /\ dir_before' = build_dir
    /\ hash_write_pc' = {}
    /\ prev' = Ended(result, incremental, edited)
    /\ edited' = {}
    /\ object_cmd' = [o \in DOMAIN object_cmd |-> << >>]
    /\ UNCHANGED <<env, build_dir, content, hash_file, objects, artifacts, cleaned, edits,
                   faults>>

\* BuildConfig::from_file
LoadManifest ==
    /\ pc = "load"
    /\ \/ /\ phases' = Append(phases, Phase("load", "ok"))
          /\ pc' = "check"
          /\ UNCHANGED <<result, error_arg, faults>>
       \/ \E err \in {"ConfigNotFound", "ConfigParsingError"} : Fail("load", err)
    /\ UNCHANGED <<env, disk, builder, run, link_log, link_cmds, written, hash_before, dir_before, past,
                   hash_write_pc, builds, edits>>

\* check_compiler: `<compiler> --version`
check_compiler ==
    /\ pc = "check"
    /\ \/ /\ phases' = Append(phases, Phase("check", "ok"))
          /\ pc' = "prepare"
          /\ UNCHANGED <<result, error_arg, faults>>
       \/ Fail("check", "CompilerNotFound")
    /\ UNCHANGED <<env, disk, builder, run, link_log, link_cmds, written, hash_before, dir_before, past,
                   hash_write_pc, builds, edits>>

\* prepare_build_directory: <build_dir>, obj, lib and bin are created where
\* missing; a failure may come after <build_dir> itself was created
prepare_build_directory ==
    /\ pc = "prepare"
    /\ \/ /\ phases' = Append(phases, Phase("prepare", "ok"))
          /\ pc' = "resolve"
          /\ build_dir' = TRUE
          /\ UNCHANGED <<result, error_arg, faults>>
       \/ /\ Fail("prepare", "IoError")
          /\ build_dir' \in {build_dir, TRUE}
    /\ UNCHANGED <<env, content, hash_file, objects, object_cmd, artifacts, builder, run,
                   link_log, link_cmds, written, hash_before, dir_before, past,
                   hash_write_pc, builds, edits>>

\* config.resolve_source_files(&self.project_dir)?
ResolveSources ==
    /\ pc = "resolve"
    /\ LET r == resolve_source_files(config)
       IN  \/ /\ r.ok
              /\ source_files' = r.map
              /\ phases' = Append(phases, Phase("resolve", "ok"))
              /\ pc' = "detect"
              /\ UNCHANGED <<result, error_arg, faults>>
           \/ /\ ~r.ok
              /\ phases' = Append(phases, Phase("resolve", "err"))
              /\ result' = r.error
              /\ error_arg' = r.arg
              /\ pc' = "idle"
              /\ UNCHANGED <<source_files, faults>>
           \/ /\ Fail("resolve", "PathError")
              /\ UNCHANGED source_files
    /\ UNCHANGED <<env, disk, builder, changed_files, status, invoked, cmds, error_map,
                   total_pb, target_pb, link_idx, link_log, link_cmds, written, hash_before, dir_before, past,
                   hash_write_pc, builds, edits>>

\* Unopenable that takes every file for readable
Unopenable_None(srcs) == {}

\* the files of the resolved map for which File::open of calculate_file_hash
\* fails
Unopenable(srcs) ==
    { f \in UNION { Range(srcs[k]) : k \in DOMAIN srcs } : content[f] = Unreadable }

\* detect_changed_files, reached when self.incremental: the previous store
\* is read, every resolved file is hashed, and the new store is written
\* before the function returns.
detect_changed_files ==
    /\ pc = "detect"
    /\ incremental
    /\ \/ /\ Unopenable(source_files) = {}
          /\ changed_files' = ChangedMap(PreviousHashes, source_files)
          /\ hash_file' = Store(NewHashes(source_files))
          /\ hash_write_pc' = hash_write_pc \cup {pc}
          /\ phases' = Append(phases, Phase("detect", "ok"))
          /\ pc' = "early"
          /\ UNCHANGED <<result, error_arg, faults>>
       \/ \* calculate_file_hash(file)? returns the error of File::open
          /\ Unopenable(source_files) # {}
          /\ phases' = Append(phases, Phase("detect", "err"))
          /\ result' = "IoError"
          /\ error_arg' = ErrorArg("IoError")
          /\ pc' = "idle"
          /\ UNCHANGED <<changed_files, hash_file, hash_write_pc, faults>>
       \/ /\ \E err \in {"IoError", "ConfigParsingError"} : Fail("detect", err)
          /\ UNCHANGED <<changed_files, hash_file, hash_write_pc>>
    /\ UNCHANGED <<env, build_dir, content, objects, object_cmd, artifacts, builder, source_files, status,
                   invoked, cmds, error_map, total_pb, target_pb, link_idx, link_log, link_cmds,
                   written, hash_before, dir_before, past, builds, edits>>

\* the else branch of lines 78-83: source_files.clone()
PassThrough ==
    /\ pc = "detect"
    /\ ~incremental
    /\ changed_files' = source_files
    /\ phases' = Append(phases, Phase("detect", "ok"))
    /\ pc' = "early"
    /\ UNCHANGED <<env, disk, builder, result, error_arg, source_files, status, invoked, cmds,
                   error_map, total_pb, target_pb, link_idx, link_log, link_cmds, written,
                   hash_before, dir_before, past, hash_write_pc, counters>>

\* lines 85-88: nothing changed, build() returns Ok
EarlyExit ==
    /\ pc = "early"
    /\ DOMAIN changed_files = {}
    /\ phases' = Append(phases, Phase("early_exit", "ok"))
    /\ result' = "Ok"
    /\ error_arg' = ""
    /\ pc' = "idle"
    /\ UNCHANGED <<env, disk, builder, run, link_log, link_cmds, written, hash_before,
                   dir_before, past, hash_write_pc, counters>>

----------------------------------------------------------------------------
(* compile_sources: one task per (target, source) pair of the changed map    *)

Tasks(changed) ==
    UNION { { <<k, i>> : i \in 1..Len(changed[k]) } : k \in DOMAIN changed }

TaskSource(t) == changed_files[t[1]][t[2]]

\* the states of a task whose worker is inside the closure: the compiler
\* runs, or it has exited with success and the progress bars are being moved
InFlight == {"running", "compiled", "counted"}

Running == { t \in DOMAIN status : status[t] \in InFlight }

Unfinished == { t \in DOMAIN status : status[t] \in {"pending"} \cup InFlight }

\* The number of tasks that may be in flight at once. The parallel iterators
\* of lines 266-274 run on rayon's global pool, which nothing in the
\* repository configures: its size is the host's, not self.jobs (which is
\* only printed, line 226).
PoolSize == HostCpus

\* Path::display / OsStr of a path handed to Command::arg
PathText(p) == p.root \o "/" \o p.stem \o "." \o p.ext

DecimalDigits == <<"0", "1", "2", "3", "4", "5", "6", "7", "8", "9">>

RECURSIVE Decimal(_)
\* format!("{}", n) of an unsigned integer
Decimal(n) ==
    IF n < Len(DecimalDigits)
    THEN DecimalDigits[n + 1]
    ELSE Decimal(n \div Len(DecimalDigits)) \o DecimalDigits[(n % Len(DecimalDigits)) + 1]

\* .iter().find(|t| t.name == target_name): the first target of the kind
\* with that name, as an Option
FindTarget(cfg, kind, name) ==
    LET ts == TargetsOfKind(cfg, kind)
        found == { i \in 1..Len(ts) : ts[i].name = name }
    IN  IF found = {} THEN << >>
        ELSE << ts[CHOOSE i \in found : \A j \in found : i <= j] >>

\* lines 299-316: -std, -O, -g, -Werror from [build]
SettingsArgs(build) ==
    (IF build.c_standard # << >> THEN << "-std=" \o build.c_standard[1] >> ELSE << >>)
    \o (IF build.optimization_level # << >>
        THEN << "-O" \o Decimal(build.optimization_level[1]) >> ELSE << >>)
    \o (IF build.debug_info = <<TRUE>> THEN <<"-g">> ELSE << >>)
    \o (IF build.warnings_as_errors = <<TRUE>> THEN <<"-Werror">> ELSE << >>)

\* lines 348-356: "-I" and the directory, a relative one joined to the project
IncludeArgs(include_dirs) ==
    Concat([i \in 1..Len(include_dirs) |->
              << "-I", IF include_dirs[i].absolute
                       THEN include_dirs[i].text
                       ELSE "project/" \o include_dirs[i].text >>])

\* lines 389-395: -D<key> for an empty value, -D<key>=<value> otherwise
DefineArgs(defines) ==
    [i \in 1..Len(defines) |->
        IF defines[i][2] = "" THEN "-D" \o defines[i][1]
        ELSE "-D" \o defines[i][1] \o "=" \o defines[i][2]]

\* ConfigDefine with the two branches of lines 433-437 exchanged
ConfigDefine_Swapped(conf) == IF conf = "release" THEN <<"-D_DEBUG">> ELSE <<"-DNDEBUG">>

\* lines 433-437: the define of the build configuration
ConfigDefine(conf) == IF conf = "release" THEN <<"-DNDEBUG">> ELSE <<"-D_DEBUG">>

\* PicFlag that takes every library, static ones too, for position independent
PicFlag_AnyLibrary(kind) == IF kind \in {"shared", "static"} THEN <<"-fPIC">> ELSE << >>

\* lines 440-442: -fPIC for the sources of a shared library
PicFlag(kind) == IF kind = "shared" THEN <<"-fPIC">> ELSE << >>

\* `for (key, value) in defines` over a HashMap: the entries come in an
\* order the program does not choose, any of their permutations
Orders(entries) ==
    { p \in [1..Len(entries) -> Range(entries)] : Range(p) = Range(entries) }

\* the defines of the target the command is built for (lines 359-387)
TargetDefines(cfg, key) ==
    LET target == FindTarget(cfg, key[1], key[2])
    IN  IF target = << >> THEN << >> ELSE target[1].defines

\* CompileCommand with the global extra flags added before the
\* configuration define and -fPIC instead of last
CompileCommand_GlobalFlagsEarly(cfg, conf, key, s, defines) ==
    LET target == FindTarget(cfg, key[1], key[2])
        include_dirs == IF target = << >> THEN << >> ELSE target[1].include_dirs
        extra_flags == IF target = << >> THEN << >> ELSE target[1].extra_flags
    IN  << cfg.build.compiler, "-c", PathText(s), "-o", PathText(ObjectFile(s)) >>
        \o SettingsArgs(cfg.build)
        \o IncludeArgs(include_dirs)
        \o DefineArgs(defines)
        \o extra_flags
        \o cfg.build.extra_flags
        \o ConfigDefine(conf)
        \o PicFlag(key[1])

\* lines 295-449: the program and its arguments for source s of target key;
\* defines are the target's defines in the order the HashMap yields them
CompileCommand(cfg, conf, key, s, defines) ==
    LET target == FindTarget(cfg, key[1], key[2])
        include_dirs == IF target = << >> THEN << >> ELSE target[1].include_dirs
        extra_flags == IF target = << >> THEN << >> ELSE target[1].extra_flags
    IN  << cfg.build.compiler, "-c", PathText(s), "-o", PathText(ObjectFile(s)) >>
        \o SettingsArgs(cfg.build)
        \o IncludeArgs(include_dirs)
        \o DefineArgs(defines)
        \o extra_flags
        \o ConfigDefine(conf)
        \o PicFlag(key[1])
        \o cfg.build.extra_flags

\* cmds once the compiler of task t has been spawned
Issued(t, defines) ==
    [u \in DOMAIN cmds \cup {t} |->
        IF u = t
        THEN CompileCommand(config, configuration, t[1], TaskSource(t), defines)
        ELSE cmds[u]]

\* lines 214-263: the progress bars and the error map, then the tasks are
\* handed to the pool
CompileBegin ==
    /\ pc = "early"
    /\ DOMAIN changed_files # {}
    /\ status' = [t \in Tasks(changed_files) |-> "pending"]
    /\ invoked' = {}
    /\ cmds' = EmptyMap
    /\ error_map' = EmptyMap
    /\ total_pb' = 0
    /\ target_pb' = [k \in DOMAIN changed_files |-> 0]
    /\ phases' = Append(phases, Phase("compile", "running"))
    /\ pc' = "compile"
    /\ UNCHANGED <<env, disk, builder, result, error_arg, source_files, changed_files, link_idx,
                   link_log, link_cmds, written, hash_before, dir_before, past, hash_write_pc,
                   counters>>

\* lines 279-464: a worker of the pool takes a task, creates the object
\* directory, assembles the command and spawns the compiler
TaskStart(t) ==
    /\ pc = "compile"
    /\ status[t] = "pending"
    /\ Cardinality(Running) < PoolSize
    /\ \/ /\ status' = [status EXCEPT ![t] = "running"]
          /\ invoked' = invoked \cup {t}
          /\ \E defines \in Orders(TargetDefines(config, t[1])) : cmds' = Issued(t, defines)
          /\ UNCHANGED faults
       \/ \* create_dir_all(parent) fails: the closure returns before the command is built
          /\ Fault
          /\ status' = [status EXCEPT ![t] = "ioerr"]
          /\ UNCHANGED <<invoked, cmds>>
       \/ \* cmd.output() cannot spawn the compiler
          /\ Fault
          /\ status' = [status EXCEPT ![t] = "ioerr"]
          /\ invoked' = invoked \cup {t}
          /\ \E defines \in Orders(TargetDefines(config, t[1])) : cmds' = Issued(t, defines)
    /\ UNCHANGED <<env, disk, builder, pc, result, error_arg, source_files, changed_files,
                   error_map, total_pb, target_pb, link_idx, phases, link_log, link_cmds,
                   written, hash_before, dir_before, past, hash_write_pc, builds, edits>>

\* the bytes the compiler of task t wrote to its standard error
Stderr(t) == <<"stderr", t>>

\* err_map_insert that drops the entry
err_map_insert_Dropped(t) == error_map

\* err_map.insert(source_file.clone(), error_msg): the entry of the source
\* is added or replaced
err_map_insert(t) ==
    [s \in DOMAIN error_map \cup {TaskSource(t)} |->
        IF s = TaskSource(t) THEN Stderr(t) ELSE error_map[s]]

\* lines 464-478 in one step: the compiler exits; success writes the object
\* and moves both progress bars, failure records stderr under the source path
TaskFinish(t) ==
    /\ pc = "compile"
    /\ status[t] = "running"
    /\ \/ /\ content[TaskSource(t)] # Unreadable
          /\ status' = [status EXCEPT ![t] = "ok"]
          /\ objects' = [objects EXCEPT ![ObjectFile(TaskSource(t))] = content[TaskSource(t)]]
          /\ object_cmd' = [object_cmd EXCEPT ![ObjectFile(TaskSource(t))] = cmds[t]]
          /\ written' = written \cup {ObjectFile(TaskSource(t))}
          /\ total_pb' = total_pb + 1
          /\ target_pb' = [target_pb EXCEPT ![t[1]] = @ + 1]
          /\ UNCHANGED <<error_map, faults>>
       \/ /\ Fault
          /\ status' = [status EXCEPT ![t] = "failed"]
          /\ error_map' = err_map_insert(t)
          /\ UNCHANGED <<objects, object_cmd, written, total_pb, target_pb>>
       \/ \* the compiler cannot open the source and exits non-zero
          /\ content[TaskSource(t)] = Unreadable
          /\ status' = [status EXCEPT ![t] = "failed"]
          /\ error_map' = err_map_insert(t)
          /\ UNCHANGED <<objects, object_cmd, written, total_pb, target_pb, faults>>
    /\ UNCHANGED <<env, build_dir, content, hash_file, artifacts, builder, pc, result, error_arg,
                   source_files, changed_files, invoked, cmds, link_idx, phases, link_log, link_cmds,
                   hash_before, dir_before, past, hash_write_pc, builds, edits>>

\* The end of the closure in its three steps, for the interleavings of the
\* workers between them. Lines 464-472: the compiler exits; success writes
\* the object, failure records stderr under the source path.
TaskExit(t) ==
    /\ pc = "compile"
    /\ status[t] = "running"
    /\ \/ /\ content[TaskSource(t)] # Unreadable
          /\ status' = [status EXCEPT ![t] = "compiled"]
          /\ objects' = [objects EXCEPT ![ObjectFile(TaskSource(t))] = content[TaskSource(t)]]
          /\ object_cmd' = [object_cmd EXCEPT ![ObjectFile(TaskSource(t))] = cmds[t]]
          /\ written' = written \cup {ObjectFile(TaskSource(t))}
          /\ UNCHANGED <<error_map, faults>>
       \/ /\ Fault
          /\ status' = [status EXCEPT ![t] = "failed"]
          /\ error_map' = err_map_insert(t)
          /\ UNCHANGED <<objects, object_cmd, written>>
       \/ /\ content[TaskSource(t)] = Unreadable
          /\ status' = [status EXCEPT ![t] = "failed"]
          /\ error_map' = err_map_insert(t)
          /\ UNCHANGED <<objects, object_cmd, written, faults>>
    /\ UNCHANGED <<env, build_dir, content, hash_file, artifacts, builder, pc, result, error_arg,
                   source_files, changed_files, invoked, cmds, total_pb, target_pb, link_idx,
                   phases, link_log, link_cmds, hash_before, dir_before, past, hash_write_pc,
                   builds, edits>>

\* line 474: pb.inc(1), the bar of the task's target
TaskTargetInc(t) ==
    /\ pc = "compile"
    /\ status[t] = "compiled"
    /\ status' = [status EXCEPT ![t] = "counted"]
    /\ target_pb' = [target_pb EXCEPT ![t[1]] = @ + 1]
    /\ UNCHANGED <<env, disk, builder, pc, result, error_arg, source_files, changed_files,
                   invoked, cmds, error_map, total_pb, link_idx, hist, past, counters>>

\* TaskTotalInc whose update of the global bar is lost
TaskTotalInc_Lost(t) ==
    /\ pc = "compile"
    /\ status[t] = "counted"
    /\ status' = [status EXCEPT ![t] = "ok"]
    /\ UNCHANGED <<env, disk, builder, pc, result, error_arg, source_files, changed_files,
                   invoked, cmds, error_map, total_pb, target_pb, link_idx, hist, past,
                   counters>>

\* line 475: total.inc(1), the global bar; the closure returns Ok
TaskTotalInc(t) ==
    /\ pc = "compile"
    /\ status[t] = "counted"
    /\ status' = [status EXCEPT ![t] = "ok"]
    /\ total_pb' = total_pb + 1
    /\ UNCHANGED <<env, disk, builder, pc, result, error_arg, source_files, changed_files,
                   invoked, cmds, error_map, target_pb, link_idx, hist, past, counters>>

\* PoolDrained without the wait for the children that are still running
PoolDrained_NoWait == \A t \in DOMAIN status : status[t] # "pending"

\* PoolDrained that stops at the first failure, leaving the peers undone
PoolDrained_ShortCircuit ==
    \/ Unfinished = {}
    \/ \E t \in DOMAIN status : status[t] \in {"failed", "ioerr"}

\* lines 480-482: collect() returns when every task has returned its result
PoolDrained == Unfinished = {}

\* CompileFailed without the check of the results (lines 497-501)
CompileFailed_ErrorMapOnly == DOMAIN error_map # {}

\* lines 485-501: a non-empty error map, or any Err among the results
CompileFailed ==
    \/ DOMAIN error_map # {}
    \/ \E t \in DOMAIN status : status[t] \in {"failed", "ioerr"}

\* CompileErrorKind that lets the first Err of the results through as it is
CompileErrorKind_Propagate ==
    IF \E t \in DOMAIN status : status[t] = "ioerr" THEN "IoError" ELSE "CompilerError"

\* lines 494 and 500: whatever failed, compile_sources returns CompilerError
CompileErrorKind == "CompilerError"

\* lines 482-505: the results are collected; a failure is CompilerError,
\* otherwise compile_sources returns Ok and build() goes on to link_targets
CompileEnd ==
    /\ pc = "compile"
    /\ PoolDrained
    /\ IF CompileFailed
       THEN /\ phases' = Finished("err")
            /\ result' = CompileErrorKind
            /\ error_arg' = ErrorArg(CompileErrorKind)
            /\ pc' = "idle"
            /\ UNCHANGED link_idx
       ELSE /\ phases' = Append(Finished("ok"), Phase("link", "running"))
            /\ pc' = "link_static"
            /\ link_idx' = 1
            /\ UNCHANGED <<result, error_arg>>
    /\ UNCHANGED <<env, disk, builder, source_files, changed_files, status, invoked, cmds,
                   error_map, total_pb, target_pb, link_log, link_cmds, written, hash_before, dir_before, past,
                   hash_write_pc, counters>>

----------------------------------------------------------------------------
(* link_targets: static libraries, shared libraries, executables, tests      *)

\* NextLinkPc with link_executables called before link_shared_libraries
NextLinkPc_ExecutablesEarly(kind) ==
    CASE kind = "static" -> "link_exe"
      [] kind = "exe" -> "link_shared"
      [] kind = "shared" -> "link_test"
      [] kind = "test" -> "idle"

\* lines 513-523: the sub-phase link_targets calls after the one of kind
NextLinkPc(kind) ==
    CASE kind = "static" -> "link_shared"
      [] kind = "shared" -> "link_exe"
      [] kind = "exe" -> "link_test"
      [] kind = "test" -> "idle"

\* the objects of a target that exist on disk, in resolved order
\* ObjectFiles without the exists() test: every derived object is linked
ObjectFiles_Unchecked(files) == [i \in 1..Len(files) |-> ObjectFile(files[i])]

ObjectFiles(files) ==
    LET objs == [i \in 1..Len(files) |-> ObjectFile(files[i])]
    IN  SeqFilter(objs, { o \in DOMAIN objects : objects[o] # 0 })

\* Option<Vec<String>> fields that only executables and tests have
LinkDirs(target) == IF "link_dirs" \in DOMAIN target THEN target.link_dirs ELSE << >>
Libs(target) == IF "libs" \in DOMAIN target THEN target.libs ELSE << >>

\* lines 653-659: the file name of a shared library
SharedLibName(plat, name) ==
    CASE plat = "windows" -> name \o ".dll"
      [] plat = "macos" -> "lib" \o name \o ".dylib"
      [] OTHER -> "lib" \o name \o ".so"

\* lines 753-757, 882-886: the file name of an executable or a test
ExeName(plat, name) == IF plat = "windows" THEN name \o ".exe" ELSE name

\* <build_dir>/lib/lib<name>.a
ArchivePath(name) == "lib/lib" \o name \o ".a"

\* lines 769-778: -L and the directory, a relative one joined to the project
LinkDirArgs(link_dirs) ==
    Concat([i \in 1..Len(link_dirs) |->
              << "-L", IF link_dirs[i].absolute
                       THEN link_dirs[i].text
                       ELSE "project/" \o link_dirs[i].text >>])

\* AutoLink that names every static library of the manifest, built or not
AutoLink_All(cfg, present) ==
    [i \in 1..Len(cfg.static_lib) |-> ArchivePath(cfg.static_lib[i].name)]

\* lines 781-790 and 918-927: the archive of every static library of the
\* manifest that exists on disk, in manifest order
AutoLink(cfg, present) ==
    Concat([i \in 1..Len(cfg.static_lib) |->
              IF TargetKey("static", cfg.static_lib[i].name) \in present
              THEN << ArchivePath(cfg.static_lib[i].name) >> ELSE << >>])

\* lines 796-800: -l<lib>
LibArgs(libs) == [i \in 1..Len(libs) |-> "-l" \o libs[i]]

\* lines 803-810 and 940-947: the rpath of an executable or a test
RpathArgs(plat, kind) ==
    CASE plat = "linux" -> << "-Wl,-rpath," \o "lib" >>
      [] plat = "macos" ->
            IF kind = "test" THEN << "-Wl,-rpath,@executable_path/../../lib" >>
            ELSE << "-Wl,-rpath,@executable_path/../lib" >>
      [] OTHER -> << >>

\* StripFlag that does not look at the configuration
StripFlag_AnyConfiguration(conf, plat) ==
    IF plat \in {"linux", "macos"} THEN << "-s" >> ELSE << >>

\* lines 677-681 and 813-817: -s for a release build on Linux and macOS
StripFlag(conf, plat) ==
    IF conf = "release" /\ plat \in {"linux", "macos"} THEN << "-s" >> ELSE << >>

\* the program and the arguments of the archive or link command of a target
\* from the object files objs, when the artifacts present exist
LinkCommand(cfg, conf, plat, kind, target, objs, present) ==
    LET object_args == [i \in 1..Len(objs) |-> PathText(objs[i])]
    IN  CASE kind = "static" ->
                << "ar", "rcs", ArchivePath(target.name) >> \o object_args
          [] kind = "shared" ->
                << cfg.build.compiler, "-shared", "-o",
                   "lib/" \o SharedLibName(plat, target.name) >>
                \o object_args
                \o (IF plat = "macos"
                    THEN << "-install_name", "@rpath/" \o SharedLibName(plat, target.name) >>
                    ELSE << >>)
                \o StripFlag(conf, plat)
          [] kind = "exe" ->
                << cfg.build.compiler, "-o", "bin/" \o ExeName(plat, target.name) >>
                \o object_args
                \o LinkDirArgs(LinkDirs(target))
                \o AutoLink(cfg, present)
                \o << "-L", "lib" >>
                \o LibArgs(Libs(target))
                \o RpathArgs(plat, kind)
                \o StripFlag(conf, plat)
          [] kind = "test" ->
                << cfg.build.compiler, "-o", "bin/tests/" \o ExeName(plat, target.name) >>
                \o object_args
                \o LinkDirArgs(LinkDirs(target))
                \o AutoLink(cfg, present)
                \o << "-L", "lib" >>
                \o LibArgs(Libs(target))
                \o RpathArgs(plat, kind)

\* an entry of link_cmds: the command of target key, how it exited, and the
\* artifacts that were on disk when it was assembled
Linked(key, cmd, exit) ==
    [key |-> key, cmd |-> cmd, exit |-> exit, present |-> artifacts]

\* LinkFailed that only warns: the loop goes on with the next target
LinkFailed_Warned ==
    /\ link_idx' = link_idx + 1
    /\ UNCHANGED <<pc, result, error_arg, phases>>

\* the command exited non-zero: the link function returns LinkerError and
\* the `?` of link_targets and of build() hand it on
LinkFailed ==
    /\ result' = "LinkerError"
    /\ error_arg' = ErrorArg("LinkerError")
    /\ phases' = Finished("err")
    /\ pc' = "idle"
    /\ UNCHANGED link_idx

\* One step of the loop of a link sub-phase: the sub-phase is over, or the
\* next target is skipped for want of objects, or its command is run.
LinkKind(kind) ==
    /\ pc = "link_" \o kind
    /\ LET targets == TargetsOfKind(config, kind)
       IN  IF link_idx > Len(targets)
           THEN /\ pc' = NextLinkPc(kind)
                /\ link_idx' = 1
                /\ IF kind = "test"
                   THEN result' = "Ok" /\ error_arg' = "" /\ phases' = Finished("ok")
                   ELSE UNCHANGED <<result, error_arg, phases>>
                /\ UNCHANGED <<artifacts, link_log, link_cmds, faults>>
           ELSE LET key == TargetKey(kind, targets[link_idx].name)
                    r == resolve_source_files(config)
                    files == IF r.ok /\ key \in DOMAIN r.map THEN r.map[key] ELSE << >>
                    cmd == LinkCommand(config, configuration, platform, kind,
                                       targets[link_idx], ObjectFiles(files), artifacts)
                IN  IF ~r.ok
                    THEN /\ result' = r.error
                         /\ error_arg' = r.arg
                         /\ phases' = Finished("err")
                         /\ pc' = "idle"
                         /\ UNCHANGED <<link_idx, artifacts, link_log, link_cmds, faults>>
                    ELSE IF files = << >> \/ ObjectFiles(files) = << >>
                    THEN /\ link_idx' = link_idx + 1
                         /\ UNCHANGED <<pc, result, error_arg, phases, artifacts, link_log,
                                        link_cmds, faults>>
                    ELSE \/ /\ link_log' = Append(link_log, key)
                            /\ link_cmds' = Append(link_cmds, Linked(key, cmd, "ok"))
                            /\ artifacts' = artifacts \cup {key}
                            /\ link_idx' = link_idx + 1
                            /\ UNCHANGED <<pc, result, error_arg, phases, faults>>
                         \/ /\ Fault
                            /\ link_log' = Append(link_log, key)
                            /\ link_cmds' = Append(link_cmds, Linked(key, cmd, "failed"))
                            /\ LinkFailed
                            /\ UNCHANGED artifacts
                         \/ \* the command cannot be spawned, or the directory
                            \* of a test cannot be created
                            /\ Fault
                            /\ result' = "IoError"
                            /\ error_arg' = ErrorArg("IoError")
                            /\ phases' = Finished("err")
                            /\ pc' = "idle"
                            /\ UNCHANGED <<link_idx, artifacts, link_log, link_cmds>>
    /\ UNCHANGED <<env, build_dir, content, hash_file, objects, object_cmd, builder, source_files,
                   changed_files, status, invoked, cmds, error_map, total_pb, target_pb,
                   written, hash_before, dir_before, past, hash_write_pc, builds, edits>>

link_static_libraries == LinkKind("static")

link_shared_libraries == LinkKind("shared")

link_executables == LinkKind("exe")

link_tests == LinkKind("test")

----------------------------------------------------------------------------
(* The user, between invocations                                             *)

\* a source file is rewritten, removed (0) or created; an edit that no later
\* build can see is left out
EditSource(f, c) ==
    /\ pc = "idle"
    /\ edits < budget.edits
    /\ builds < budget.builds
    /\ content[f] # c
    /\ content' = [content EXCEPT ![f] = c]
    /\ edits' = edits + 1
    /\ edited' = edited \cup {f}
    /\ UNCHANGED <<env, build_dir, hash_file, objects, object_cmd, artifacts, builder, pc,
                   result, error_arg, run, hist, prev, cleaned, builds, faults>>

----------------------------------------------------------------------------
(* The clean command (main.rs, Builder::clean)                               *)

\* the configuration main hands to Builder::new for the clean command
CleanConfiguration == "debug"

\* the parts of a build directory: the hash store, obj, and lib with bin
DirParts == {"store", "obj", "artifacts"}

\* the build directory of the modelled configuration after the parts gone
\* were removed from it
Removed(gone) ==
    /\ hash_file' = IF "store" \in gone THEN NoStore ELSE hash_file
    /\ objects' = IF "obj" \in gone
                  THEN [o \in DOMAIN objects |-> IF o.root = "obj" THEN 0 ELSE objects[o]]
                  ELSE objects
    /\ artifacts' = IF "artifacts" \in gone THEN {} ELSE artifacts

\* main's Clean arm: Builder::new(&project_dir, "debug", 1).clean(). The
\* directory that is removed is build/debug; the directory of the model is
\* build/<configuration>. remove_dir_all that fails has removed none or some
\* of the entries and leaves the directory itself.
clean ==
    /\ pc = "idle"
    /\ cleaned.at = -1
    /\ IF CleanConfiguration = configuration /\ build_dir
       THEN \/ /\ Removed(DirParts)
               /\ build_dir' = FALSE
               /\ cleaned' = Cleaned(builds, result, artifacts, "Ok")
               /\ UNCHANGED faults
            \/ /\ Fault
               /\ \E gone \in (SUBSET DirParts) \ {DirParts} : Removed(gone)
               /\ cleaned' = Cleaned(builds, result, artifacts, "IoError")
               /\ UNCHANGED build_dir
       ELSE /\ cleaned' = Cleaned(builds, result, artifacts, "Ok")
            /\ UNCHANGED <<hash_file, objects, artifacts, build_dir, faults>>
    /\ UNCHANGED <<env, content, object_cmd, builder, pc, result, error_arg, run, hist, prev,
                   edited, builds, edits>>

----------------------------------------------------------------------------

Next ==
    \/ StartBuild
    \/ LoadManifest
    \/ check_compiler
    \/ prepare_build_directory
    \/ ResolveSources
    \/ detect_changed_files
    \/ PassThrough
    \/ EarlyExit
    \/ CompileBegin
    \/ \E t \in DOMAIN status : TaskStart(t)
    \/ \E t \in DOMAIN status : TaskFinish(t)
    \/ CompileEnd
    \/ link_static_libraries
    \/ link_shared_libraries
    \/ link_executables
    \/ link_tests
    \/ \E f \in DOMAIN content, c \in Contents \cup {0} : EditSource(f, c)

Spec == Init /\ [][Next]_vars

SpecJobs == InitJobs /\ [][Next]_vars

\* builds of either configuration with a run of the clean command before,
\* between or after them, and no edit of a source
InitClean ==
    InitOn({FullManifest, AppManifest}, Sources, {"debug", "release"}, {"linux"}, 0,
           [builds |-> 2, edits |-> 0, faults |-> 1])

NextClean ==
    \/ StartBuild
    \/ LoadManifest
    \/ check_compiler
    \/ prepare_build_directory
    \/ ResolveSources
    \/ detect_changed_files
    \/ PassThrough
    \/ EarlyExit
    \/ CompileBegin
    \/ \E t \in DOMAIN status : TaskStart(t)
    \/ \E t \in DOMAIN status : TaskFinish(t)
    \/ CompileEnd
    \/ link_static_libraries
    \/ link_shared_libraries
    \/ link_executables
    \/ link_tests
    \/ clean

SpecClean == InitClean /\ [][NextClean]_vars

\* builds of a project in which a source may lose its read permission
InitUnreadable ==
    InitOn({FullManifest, AppManifest}, Sources, {"debug"}, {"linux"}, 0,
           [builds |-> 2, edits |-> 1, faults |-> 1])

NextUnreadable ==
    \/ StartBuild
    \/ LoadManifest
    \/ check_compiler
    \/ prepare_build_directory
    \/ ResolveSources
    \/ detect_changed_files
    \/ PassThrough
    \/ EarlyExit
    \/ CompileBegin
    \/ \E t \in DOMAIN status : TaskStart(t)
    \/ \E t \in DOMAIN status : TaskFinish(t)
    \/ CompileEnd
    \/ link_static_libraries
    \/ link_shared_libraries
    \/ link_executables
    \/ link_tests
    \/ \E f \in DOMAIN content, c \in Contents \cup {0, Unreadable} : EditSource(f, c)

SpecUnreadable == InitUnreadable /\ [][NextUnreadable]_vars

\* one build, the end of each worker's closure taken step by step
InitProgress ==
    InitOn(Manifests, Sources, {"debug"}, {"linux"}, 0,
           [builds |-> 1, edits |-> 0, faults |-> 1])

NextProgress ==
    \/ StartBuild
    \/ LoadManifest
    \/ check_compiler
    \/ prepare_build_directory
    \/ ResolveSources
    \/ detect_changed_files
    \/ PassThrough
    \/ EarlyExit
    \/ CompileBegin
    \/ \E t \in DOMAIN status : TaskStart(t)
    \/ \E t \in DOMAIN status : TaskExit(t)
    \/ \E t \in DOMAIN status : TaskTargetInc(t)
    \/ \E t \in DOMAIN status : TaskTotalInc(t)
    \/ CompileEnd
    \/ link_static_libraries
    \/ link_shared_libraries
    \/ link_executables
    \/ link_tests

SpecProgress == InitProgress /\ [][NextProgress]_vars

\* a project of two sources that differ only in their extension
InitTwin ==
    InitOn({TwinManifest}, {UtilC, UtilCpp}, {"debug"}, {"linux"}, 0,
           [builds |-> MaxBuilds, edits |-> MaxEdits, faults |-> MaxFaults])

SpecTwin == InitTwin /\ [][Next]_vars

Platforms == {"linux", "macos", "windows"}

\* one build in either configuration on any platform
InitConfigurations ==
    InitOn(Manifests \cup {DefinesManifest}, Sources, {"debug", "release"},
           Platforms, 0,
           [builds |-> 1, edits |-> MaxEdits, faults |-> MaxFaults])

SpecConfigurations == InitConfigurations /\ [][Next]_vars

----------------------------------------------------------------------------
(* Change detection on its own: detect_changed_files applied to every        *)
(* resolved-source map and every previous hash store of the bounded sets     *)

HashKeys == { PathStr(f) : f \in Sources }

Hashes == { Sha256Hex(c) : c \in Contents }

\* every hash-store file: none, or a map from some keys to hashes
Stores ==
    {NoStore} \cup
    UNION { { Store(m) : m \in [K -> Hashes] } : K \in SUBSET HashKeys }

\* build() has resolved the sources of an incremental invocation and is about
\* to call detect_changed_files
InitDetect ==
    /\ config \in Manifests
    /\ configuration = "debug"
    /\ platform = "linux"
    /\ jobs_arg = 0
    /\ budget = [builds |-> 1, edits |-> 0, faults |-> MaxFaults]
    /\ content \in [Sources -> Contents \cup {0}]
    /\ resolve_source_files(config).ok
    /\ hash_file \in Stores
    /\ objects = [o \in ObjectPaths |-> 0]
    /\ object_cmd = [o \in ObjectPaths |-> << >>]
    /\ artifacts = {}
    /\ build_dir = TRUE
    /\ jobs = num_cpus
    /\ incremental = TRUE
    /\ pc = "detect"
    /\ result = "running"
    /\ error_arg = ""
    /\ source_files = resolve_source_files(config).map
    /\ changed_files = EmptyMap
    /\ status = EmptyMap
    /\ invoked = {}
    /\ cmds = EmptyMap
    /\ error_map = EmptyMap
    /\ total_pb = 0
    /\ target_pb = EmptyMap
    /\ link_idx = 1
    /\ phases = << Phase("load", "ok"), Phase("check", "ok"), Phase("prepare", "ok"),
                   Phase("resolve", "ok") >>
    /\ link_log = << >>
    /\ link_cmds = << >>
    /\ written = {}
    /\ hash_before = hash_file
    /\ dir_before \in (IF hash_file.exists THEN {TRUE} ELSE BOOLEAN)
    /\ hash_write_pc = {}
    /\ prev = NoBuild
    /\ cleaned = NoClean
    /\ edited = {}
    /\ builds = 1
    /\ edits = 0
    /\ faults = 0

NextDetect == detect_changed_files

SpecDetect == InitDetect /\ [][NextDetect]_vars

----------------------------------------------------------------------------
(* Properties                                                                *)

TypeOK ==
    /\ pc \in {"idle", "load", "check", "prepare", "resolve", "detect", "early",
               "compile", "link_static", "link_shared", "link_exe", "link_test"}
    /\ builds \in 0..budget.builds
    /\ edits \in 0..budget.edits
    /\ faults \in 0..budget.faults
    /\ jobs \in 1..Max(MaxJobs, HostCpus)
    /\ hash_write_pc \subseteq {"detect"}
    /\ prev \in [clean : BOOLEAN, edited : SUBSET DOMAIN content]
    /\ edited \subseteq DOMAIN content
    /\ build_dir \in BOOLEAN
    /\ dir_before \in BOOLEAN
    /\ result \in {"none", "running", "Ok"} => error_arg = ""


LinkPcs == {"link_static", "link_shared", "link_exe", "link_test"}

PhaseNames == [i \in 1..Len(phases) |-> phases[i].name]

IsPrefix(a, b) == Len(a) <= Len(b) /\ \A i \in 1..Len(a) : a[i] = b[i]

PhaseOrder == <<"load", "check", "prepare", "resolve", "detect", "compile", "link">>

EarlyOrder == <<"load", "check", "prepare", "resolve", "detect", "early_exit">>

\* the compile phase of this invocation has started and is over
CompilePhaseOver ==
    \E i \in 1..Len(phases) : phases[i].name = "compile" /\ phases[i].outcome # "running"

FailedTasks == { t \in DOMAIN status : status[t] \in {"failed", "ioerr"} }

\* C1: the phases of one build() run in the order load, check compiler,
\* prepare, resolve, detect (or pass-through), then either the early exit
\* (exactly when no file changed) or compile and link; every phase but the
\* last one of the history has returned success, so none starts after a
\* failure, none runs twice and none runs out of order.
C1_PhaseOrder ==
    /\ IsPrefix(PhaseNames, PhaseOrder) \/ PhaseNames = EarlyOrder
    /\ \A i \in 1..(Len(phases) - 1) : phases[i].outcome = "ok"
    /\ PhaseNames = EarlyOrder => DOMAIN changed_files = {}
    /\ Len(phases) >= 6 /\ PhaseNames[6] = "compile" => DOMAIN changed_files # {}
    /\ pc \in LinkPcs => PhaseNames = PhaseOrder

C1_Witness == pc = "idle" /\ result = "Ok" /\ PhaseNames = PhaseOrder

\* C2: when an archive or link command has been issued, or a link sub-phase
\* is running, every compile task of the changed map has finished
C2_CompileBeforeLink ==
    (link_log # << >> \/ pc \in LinkPcs) =>
        /\ DOMAIN status = Tasks(changed_files)
        /\ \A t \in DOMAIN status : status[t] \in {"ok", "failed", "ioerr"}

C2_Witness == Len(link_log) >= 1 /\ Cardinality(DOMAIN status) >= 2

\* C3: if a compile task of the run failed, no archive or link command is
\* issued in the run, no link sub-phase is entered, and build() returns
\* CompilerError
C3_LinkOnlyAfterCompileOk ==
    FailedTasks # {} =>
        /\ link_log = << >>
        /\ pc \notin LinkPcs
        /\ pc = "idle" => result = "CompilerError"

C3_Witness ==
    /\ pc = "idle"
    /\ result = "CompilerError"
    /\ FailedTasks # {}
    /\ \E t \in DOMAIN status : status[t] = "ok"

\* C4 as stated: once the compile phase is over, every (target, source) pair
\* of the changed map has had its compiler invoked and has run to completion
C4_EveryCompilerInvoked ==
    CompilePhaseOver =>
        /\ DOMAIN status = Tasks(changed_files)
        /\ \A t \in DOMAIN status : status[t] \in {"ok", "failed", "ioerr"}
        /\ invoked = Tasks(changed_files)

\* C4, amended: once the compile phase is over, every (target, source) pair
\* of the changed map has run to completion whichever peers failed, and its
\* compiler was invoked unless the task itself failed with an IO error
\* before the compiler ran
C4_PeersComplete ==
    CompilePhaseOver =>
        /\ DOMAIN status = Tasks(changed_files)
        /\ \A t \in DOMAIN status : status[t] \in {"ok", "failed", "ioerr"}
        /\ \A t \in DOMAIN status : t \notin invoked => status[t] = "ioerr"

C4_Witness ==
    /\ CompilePhaseOver
    /\ FailedTasks # {}
    /\ \E t \in DOMAIN status : status[t] = "ok" /\ t \in invoked
    /\ Cardinality(DOMAIN status) >= 3

\* C5: the compile phase returns ok iff every task succeeded, and when it
\* fails, by a compiler exit or by an IO error alone, build() returns
\* CompilerError
C5_CompileResult ==
    \A i \in 1..Len(phases) :
        (phases[i].name = "compile" /\ phases[i].outcome # "running") =>
            /\ phases[i].outcome = "ok" <=> (\A t \in DOMAIN status : status[t] = "ok")
            /\ phases[i].outcome = "err" => (pc = "idle" /\ result = "CompilerError")

C5_Witness ==
    /\ pc = "idle"
    /\ result = "CompilerError"
    /\ DOMAIN error_map = {}
    /\ \E t \in DOMAIN status : status[t] = "ioerr"

\* C6: during the compile phase at most `jobs` compiler processes are alive
C6_BoundedByJobs == Cardinality(Running) <= jobs

\* C7: when build() has returned an error, file_hashes.json is what it was
\* when the invocation started
C7_FailedRunKeepsStore ==
    (pc = "idle" /\ result \notin {"none", "Ok"}) => hash_file = hash_before

\* C8: while the compile phase is running, file_hashes.json has not been
\* written by this invocation
C8_StoreWrittenAfterCompile == pc = "compile" => hash_write_pc = {}

\* C9: after a successful non-incremental build every resolved source was
\* compiled in that run and file_hashes.json holds its current hash
C9_NonIncrementalUpdatesStore ==
    (pc = "idle" /\ result = "Ok" /\ ~incremental) =>
        /\ DOMAIN status = Tasks(source_files)
        /\ \A t \in DOMAIN status : status[t] = "ok"
        /\ \A k \in DOMAIN source_files : \A f \in Range(source_files[k]) :
              /\ hash_file.exists
              /\ PathStr(f) \in DOMAIN hash_file.map
              /\ hash_file.map[PathStr(f)] = Sha256Hex(content[f])

\* the previous hash of f is absent from the store the invocation started
\* with, or differs from the hash of the current content of f
ChangedSinceStore(f) ==
    \/ ~hash_before.exists
    \/ PathStr(f) \notin DOMAIN hash_before.map
    \/ hash_before.map[PathStr(f)] # Sha256Hex(content[f])

\* C10: when change detection has returned, each target's list in the
\* changed map is its resolved list restricted to the files whose previous
\* hash is absent or differs, in the resolved order, and a target without
\* such a file has no key
C10_ChangedMap ==
    (pc = "early" /\ incremental) =>
        /\ DOMAIN changed_files \subseteq DOMAIN source_files
        /\ \A k \in DOMAIN source_files :
              LET want == SeqFilter(source_files[k],
                                    { f \in Sources : ChangedSinceStore(f) })
              IN  IF want = << >>
                  THEN k \notin DOMAIN changed_files
                  ELSE k \in DOMAIN changed_files /\ changed_files[k] = want

C10_Witness ==
    /\ pc = "early"
    /\ incremental
    /\ hash_before.exists
    /\ \E k \in DOMAIN changed_files : Len(changed_files[k]) < Len(source_files[k])

\* the sources resolved for any target in this invocation
ResolvedSources == UNION { Range(source_files[k]) : k \in DOMAIN source_files }

\* the map file_hashes.json stands for; no file counts as the empty map
StoreMap == IF hash_file.exists THEN hash_file.map ELSE EmptyMap

\* the store holds exactly the current hash of every resolved source
StoreIsExact ==
    /\ DOMAIN StoreMap = { PathStr(f) : f \in ResolvedSources }
    /\ \A f \in ResolvedSources : StoreMap[PathStr(f)] = Sha256Hex(content[f])

\* C11: after a build run that returned success, file_hashes.json is exactly
\* the map from each resolved source to the hash of its current contents:
\* every resolved source is present and no other path is
C11_StoreIsExactAfterRun ==
    (pc = "idle" /\ result = "Ok" /\ edited = {}) => StoreIsExact

\* C11 for the incremental runs alone
C11_IncrementalOnly ==
    (pc = "idle" /\ result = "Ok" /\ incremental /\ edited = {}) => StoreIsExact

\* this invocation is an incremental build that follows an incremental build
\* which returned Ok, and no source was modified in between
Rebuild == builds >= 2 /\ prev.clean /\ prev.edited = {} /\ incremental

NoPhaseFailed == \A i \in 1..Len(phases) : phases[i].outcome # "err"

\* C12: an incremental build that follows a successful incremental build of
\* the same unmodified tree finds nothing changed, starts no compile task,
\* invokes no compiler, issues no archive or link command and writes no
\* object; unless the environment fails it in an earlier phase, it takes the
\* early exit ("all files up to date") and returns Ok
C12_SecondBuildNoOp ==
    Rebuild =>
        /\ DOMAIN changed_files = {}
        /\ DOMAIN status = {} /\ invoked = {} /\ written = {}
        /\ link_log = << >>
        /\ pc \notin {"compile"} \cup LinkPcs
        /\ (pc = "idle" /\ NoPhaseFailed) =>
               (result = "Ok" /\ PhaseNames = EarlyOrder)

C12_Witness ==
    /\ Rebuild /\ pc = "idle" /\ result = "Ok" /\ PhaseNames = EarlyOrder
    /\ DOMAIN source_files # {}

\* the sources of this invocation's changed map
ChangedSources == UNION { Range(changed_files[k]) : k \in DOMAIN changed_files }

\* C13: when build() has returned Ok, the object file of every resolved
\* source exists, and it was written in this invocation exactly when the
\* source is in this invocation's changed map
C13_ObjectsAfterSuccess ==
    (pc = "idle" /\ result = "Ok") =>
        \A s \in ResolvedSources :
            /\ objects[ObjectFile(s)] # 0
            /\ ObjectFile(s) \in written <=> s \in ChangedSources

\* the second half of C13 alone
C13_WrittenIffChanged ==
    (pc = "idle" /\ result = "Ok") =>
        \A s \in ResolvedSources : ObjectFile(s) \in written <=> s \in ChangedSources

\* C16: one build run issues at most one compile task for a source, so no
\* two compile tasks of a run write the same object file
C16_NoDuplicateTasks ==
    \A t, u \in DOMAIN status :
        t # u => ObjectFile(TaskSource(t)) # ObjectFile(TaskSource(u))

\* the object path C18 states for a source of the project: the relative path
\* of the source with ".o" appended, under <build_dir>/obj
AppendedObjectFile(s) == [root |-> "obj", stem |-> s.stem \o "." \o s.ext, ext |-> "o"]

\* C18: every object written by a compile task of the run is at
\* <build_dir>/obj/<relative path of its source>.o, the ".o" appended to the
\* source's file name (src/main.c gives obj/src/main.c.o)
C18_ObjectPathAppendsO ==
    written \subseteq { AppendedObjectFile(s) : s \in ChangedSources }

\* this invocation is an incremental build that followed an incremental build
\* which returned Ok, and it has itself returned Ok
FollowUpDone ==
    /\ builds >= 2 /\ prev.clean /\ incremental
    /\ pc = "idle" /\ result = "Ok" /\ edited = {}

\* the resolved sources whose content changed since the previous build
ChangedSincePrevious == { s \in ResolvedSources : ChangedSinceStore(s) }

\* C15: in an incremental build that follows a successful incremental build,
\* the number of compiler invocations equals the number of sources whose
\* content changed since the previous build, and when that number is not
\* zero every target's artifact is linked again
C15_OneCompilePerChangedSource ==
    FollowUpDone =>
        /\ Cardinality(invoked) = Cardinality(ChangedSincePrevious)
        /\ ChangedSincePrevious # {} => Range(link_log) = DOMAIN source_files

\* the second half of C15 alone
C15_RelinkAll ==
    FollowUpDone =>
        (ChangedSincePrevious # {} => Range(link_log) = DOMAIN source_files)

\* how many arguments of the command line cmd are the string arg
Occurrences(cmd, arg) == Cardinality({ i \in 1..Len(cmd) : cmd[i] = arg })

\* C19: the command of every compiler spawned for a source of a shared
\* library contains -fPIC, and the command of a compiler spawned for a
\* source of an executable, a static library or a test does not (no flag
\* list of the manifests holds -fPIC, so a -fPIC is the one compile_sources adds)
C19_PicIffShared ==
    \A t \in DOMAIN cmds :
        Occurrences(cmds[t], "-fPIC") > 0 <=> t[1][1] = "shared"

C19_Witness ==
    /\ \E t \in DOMAIN cmds : t[1][1] = "shared" /\ Occurrences(cmds[t], "-fPIC") = 1
    /\ \E t \in DOMAIN cmds : t[1][1] = "static"
    /\ \E t \in DOMAIN cmds : t[1][1] = "exe"
    /\ \E t \in DOMAIN cmds : t[1][1] = "test"

\* C20: the command of every compiler spawned in a release build contains
\* -DNDEBUG and no -D_DEBUG, that of every compiler spawned in a debug build
\* contains -D_DEBUG and no -DNDEBUG, and the two together occur exactly once
C20_ConfigDefine ==
    \A t \in DOMAIN cmds :
        LET ndebug == Occurrences(cmds[t], "-DNDEBUG")
            debug == Occurrences(cmds[t], "-D_DEBUG")
        IN  /\ ndebug + debug = 1
            /\ configuration = "release" => ndebug = 1
            /\ configuration # "release" => debug = 1

C20_Witness ==
    /\ configuration = "release"
    /\ \E t \in DOMAIN cmds : Occurrences(cmds[t], "-DNDEBUG") = 1
    /\ Cardinality(DOMAIN cmds) >= 2

\* the tasks of the run that write the object file o
Writers(o) == { t \in DOMAIN status : ObjectFile(TaskSource(t)) = o }

\* C17: what a build leaves behind does not depend on the job count or on
\* the order in which the pool runs the tasks: the command line that
\* produced an object file is the command line of every task of the run
\* that compiled into it with success, whichever of them finished last
C17_ObjectCommandFixed ==
    \A t \in DOMAIN status :
        status[t] = "ok" => object_cmd[ObjectFile(TaskSource(t))] = cmds[t]

\* with --jobs 1, both orders of two writers of one object occur: the object
\* is left by the one command in some runs and by the other in others
C17_LastWriterIs(kind) ==
    /\ jobs = 1 /\ pc = "idle" /\ result = "Ok"
    /\ \E t \in DOMAIN status :
          /\ t[1][1] = kind
          /\ Cardinality(Writers(ObjectFile(TaskSource(t)))) = 2
          /\ object_cmd[ObjectFile(TaskSource(t))] = cmds[t]

\* C14: no compile task of the run writes to the object path of a resolved
\* source that is not in the run's changed map
C14_UnchangedObjectsUntouched ==
    \A s \in ResolvedSources \ ChangedSources : ObjectFile(s) \notin written

\* the one argument flag when present holds, none otherwise
Optional(present, flag) == IF present THEN << flag >> ELSE << >>

\* the targets of the manifest that the target key names
NamedBy(key) ==
    { tg \in Range(TargetsOfKind(config, key[1])) : tg.name = key[2] }

\* the command line C21 states for source s of target tg of kind kind, the
\* defines taken in the order defs
StatedCommand(kind, tg, s, defs) ==
    << config.build.compiler, "-c", PathText(s), "-o", PathText(ObjectFile(s)) >>
    \o Optional(config.build.c_standard # << >>, "-std=" \o config.build.c_standard[1])
    \o Optional(config.build.optimization_level # << >>,
                "-O" \o Decimal(config.build.optimization_level[1]))
    \o Optional(config.build.debug_info = <<TRUE>>, "-g")
    \o Optional(config.build.warnings_as_errors = <<TRUE>>, "-Werror")
    \o Concat([i \in 1..Len(tg.include_dirs) |->
                 << "-I", IF tg.include_dirs[i].absolute THEN tg.include_dirs[i].text
                          ELSE "project/" \o tg.include_dirs[i].text >>])
    \o [i \in 1..Len(defs) |->
           IF defs[i][2] = "" THEN "-D" \o defs[i][1]
           ELSE "-D" \o defs[i][1] \o "=" \o defs[i][2]]
    \o tg.extra_flags
    \o Optional(TRUE, IF configuration = "release" THEN "-DNDEBUG" ELSE "-D_DEBUG")
    \o Optional(kind = "shared", "-fPIC")
    \o config.build.extra_flags

\* C21: the command line of every spawned compiler is the compiler followed
\* by -c s -o <object>, -std, -O, -g, -Werror as set, -I <dir> per include
\* dir of the target named by the task's key, one -D per define of that
\* target (in some order), that target's extra flags, the configuration
\* define, -fPIC for a shared library, then the global extra flags
C21_CompileCommandLine ==
    \A t \in DOMAIN cmds :
        \E tg \in NamedBy(t[1]) :
            \E defs \in Orders(tg.defines) :
                cmds[t] = StatedCommand(t[1][1], tg, TaskSource(t), defs)

\* a command with two defines in the order opposite to the manifest's, two
\* include directories, two target flags and two global flags
C21_Witness ==
    \E t \in DOMAIN cmds :
        /\ config = DefinesManifest
        /\ cmds[t] = << "cc", "-c", "project/src/m.c", "-o", "obj/src/m.o",
                        "-std=c99", "-O0", "-Werror", "-I", "project/inc",
                        "-I", "/usr/inc", "-DB=2", "-DA", "-fno-common",
                        "-funroll-loops", "-DNDEBUG", "-Wall", "-pedantic" >>

\* the place of a kind in the order of the link sub-phases
KindRank(kind) ==
    CASE kind = "static" -> 1
      [] kind = "shared" -> 2
      [] kind = "exe" -> 3
      [] kind = "test" -> 4

\* C22: the archive and link commands of one build are issued in the order
\* static libraries, shared libraries, executables, tests, and while the
\* static or the shared sub-phase runs no executable or test has been linked
C22_LinkOrder ==
    /\ \A i, j \in 1..Len(link_cmds) :
          i < j => KindRank(link_cmds[i].key[1]) <= KindRank(link_cmds[j].key[1])
    /\ pc \in {"link_static", "link_shared"} =>
          \A i \in 1..Len(link_cmds) : link_cmds[i].key[1] \in {"static", "shared"}

C22_Witness ==
    /\ Len(link_cmds) = 4
    /\ [i \in 1..4 |-> link_cmds[i].key[1]] = Kinds

\* C23: an archive or link command that exited non-zero is the last command
\* of its run, and build() has returned LinkerError
C23_LinkFailureAborts ==
    \A i \in 1..Len(link_cmds) :
        link_cmds[i].exit = "failed" =>
            /\ i = Len(link_cmds)
            /\ pc = "idle"
            /\ result = "LinkerError"

\* the archive of the static library fails while a shared library, an
\* executable and a test are still to be linked
C23_Witness ==
    /\ config = FullManifest
    /\ Len(link_cmds) = 1
    /\ link_cmds[1].exit = "failed"
    /\ pc = "idle"

\* the names of the static libraries of the manifest
StaticNames == { config.static_lib[i].name : i \in 1..Len(config.static_lib) }

\* C24: the link command of every executable and every test has the archive
\* path of a static library of the manifest among its arguments exactly when
\* that archive was on disk as the command was assembled
C24_AutoLink ==
    \A i \in 1..Len(link_cmds) :
        link_cmds[i].key[1] \in {"exe", "test"} =>
            \A n \in StaticNames :
                Occurrences(link_cmds[i].cmd, ArchivePath(n)) > 0
                    <=> TargetKey("static", n) \in link_cmds[i].present

\* an executable linked while the archive of the manifest's static library
\* does not exist
C24_Witness ==
    \E i \in 1..Len(link_cmds) :
        /\ link_cmds[i].key[1] = "exe"
        /\ StaticNames = {"m"}
        /\ TargetKey("static", "m") \notin link_cmds[i].present
        /\ Occurrences(link_cmds[i].cmd, ArchivePath("m")) = 0

\* the text of the object paths of the model
ObjectTexts == { PathText(o) : o \in ObjectPaths }

\* the objects of target key that are on disk, as command-line arguments in
\* the order of the target's resolved sources
ExistingObjects(key) ==
    LET files == resolve_source_files(config).map[key]
    IN  SeqFilter([i \in 1..Len(files) |-> PathText(ObjectFile(files[i]))],
                  { PathText(o) : o \in { p \in DOMAIN objects : objects[p] # 0 } })

\* the build got as far as linking
LinkReached == phases # << >> /\ phases[Len(phases)].name = "link"

\* C25: the object arguments of every archive and link command are the
\* objects of the target that exist on disk, at least one; a build whose link
\* phase succeeded has linked exactly the targets with an object on disk;
\* and the link phase fails only by a command that failed or could not run.
\* Stated of the sources the build has seen, that is while no source has been
\* edited since the build began.
C25_MissingObjectsSkipped ==
    edited = {} =>
    /\ \A i \in 1..Len(link_cmds) :
          /\ SeqFilter(link_cmds[i].cmd, ObjectTexts) = ExistingObjects(link_cmds[i].key)
          /\ ExistingObjects(link_cmds[i].key) # << >>
    /\ LinkReached /\ pc = "idle" /\ result = "Ok" =>
          \A key \in AllKeys(config) :
              (\E i \in 1..Len(link_cmds) : link_cmds[i].key = key)
                  <=> ExistingObjects(key) # << >>
    /\ LinkReached /\ pc = "idle" /\ result # "Ok" =>
          /\ result \in {"LinkerError", "IoError"}
          /\ result = "LinkerError" =>
                link_cmds # << >> /\ link_cmds[Len(link_cmds)].exit = "failed"

\* a build that succeeded although an object of its executable is missing:
\* the executable is linked from the one object that exists
C25_Witness ==
    /\ edited = {}
    /\ LinkReached /\ pc = "idle" /\ result = "Ok"
    /\ \E i \in 1..Len(link_cmds) :
          /\ Len(resolve_source_files(config).map[link_cmds[i].key]) = 2
          /\ Len(SeqFilter(link_cmds[i].cmd, ObjectTexts)) = 1

\* the test of the manifest that key names
TestNamed(key) ==
    config.test[CHOOSE j \in 1..Len(config.test) : config.test[j].name = key[2]]

\* the link command of an executable with the output path and the macOS
\* rpath of the test called name in their places
AsTestCommand(cmd, name) ==
    [i \in 1..Len(cmd) |->
        IF i = 3 THEN "bin/tests/" \o ExeName(platform, name)
        ELSE IF cmd[i] = "-Wl,-rpath,@executable_path/../lib"
             THEN "-Wl,-rpath,@executable_path/../../lib"
             ELSE cmd[i]]

\* C26: the link command of a test is the link command of an executable of
\* the same target fields, configuration and platform, but for the output
\* path and the macOS rpath
C26_TestLinkedAsExecutable ==
    edited = {} =>
        \A i \in 1..Len(link_cmds) :
            link_cmds[i].key[1] = "test" =>
                link_cmds[i].cmd =
                    AsTestCommand(
                        LinkCommand(config, configuration, platform, "exe",
                                    TestNamed(link_cmds[i].key),
                                    ObjectFiles(resolve_source_files(config).map[link_cmds[i].key]),
                                    link_cmds[i].present),
                        link_cmds[i].key[2])

\* C27: on Linux and macOS the link command of every shared library and of
\* every executable has -s among its arguments exactly when the
\* configuration is release
C27_StripInRelease ==
    platform \in {"linux", "macos"} =>
        \A i \in 1..Len(link_cmds) :
            link_cmds[i].key[1] \in {"shared", "exe"} =>
                (Occurrences(link_cmds[i].cmd, "-s") > 0 <=> configuration = "release")

\* a release build on macOS has linked a shared library and an executable,
\* both with -s
C27_Witness ==
    /\ platform = "macos" /\ configuration = "release"
    /\ \E i \in 1..Len(link_cmds) :
          link_cmds[i].key[1] = "shared" /\ Occurrences(link_cmds[i].cmd, "-s") = 1
    /\ \E i \in 1..Len(link_cmds) :
          link_cmds[i].key[1] = "exe" /\ Occurrences(link_cmds[i].cmd, "-s") = 1

\* C28: when the version probe of the compiler fails, build() returns
\* CompilerNotFound with the compiler's name and has done nothing after the
\* probe: the build directory is as it was, no source is resolved, the hash
\* store is as it was, and no compile, archive or link command was issued;
\* and a failed probe returns nothing else
C28_CompilerNotFound ==
    /\ result = "CompilerNotFound" =>
          /\ pc = "idle"
          /\ error_arg = config.build.compiler
          /\ PhaseNames = <<"load", "check">>
          /\ build_dir = dir_before
          /\ source_files = EmptyMap /\ changed_files = EmptyMap
          /\ hash_file = hash_before /\ hash_write_pc = {}
          /\ status = EmptyMap /\ invoked = {} /\ cmds = EmptyMap /\ written = {}
          /\ link_log = << >> /\ link_cmds = << >>
    /\ \A i \in 1..Len(phases) :
          phases[i].name = "check" /\ phases[i].outcome = "err" =>
              result = "CompilerNotFound"

\* the probe of clang fails in a project that has no build directory
C28_Witness ==
    /\ result = "CompilerNotFound"
    /\ error_arg = "clang"
    /\ ~build_dir

\* format!("{}:{}", kind, name): the key of a target as the text the
\* resolved map is indexed by
KeyText(key) == key[1] \o ":" \o key[2]

\* no pattern of the target under key matches a file
MatchesNone(key) ==
    LET src == TargetOfKey(config, key).src
    IN  \A i \in 1..Len(src) : \A f \in Range(src[i]) : content[f] = 0

\* the resolve phase of this invocation has returned with outcome
Resolved(outcome) ==
    \E i \in 1..Len(phases) : phases[i] = Phase("resolve", outcome)

\* what C29 states but for the string that NoSourceFiles carries
ResolvesUnlessNoMatch ==
    /\ result = "NoSourceFiles" => \E k \in AllKeys(config) : MatchesNone(k)
    /\ Resolved("err") /\ result # "PathError" => result = "NoSourceFiles"
    /\ (\E k \in AllKeys(config) : MatchesNone(k)) => ~Resolved("ok")
    /\ Resolved("ok") =>
          \A k \in AllKeys(config) :
              k \in DOMAIN source_files /\ source_files[k] # << >>

\* C29: resolve fails with NoSourceFiles carrying the key <kind>:<name> of a
\* target exactly when the patterns of that target match no file; otherwise
\* every target of the manifest has a key with a non-empty list
C29_NoSourceFilesNamesTarget ==
    edited = {} =>
        /\ ResolvesUnlessNoMatch
        /\ result = "NoSourceFiles" =>
              \E k \in AllKeys(config) : MatchesNone(k) /\ error_arg = KeyText(k)

\* the errors of build() that the environment raises whatever the manifest
\* lists: the manifest cannot be read, the compiler cannot be run, the build
\* directory or the hash store cannot be written
EnvironmentErrors ==
    {"ConfigNotFound", "ConfigParsingError", "CompilerNotFound", "IoError", "PathError"}

\* C30: a build of a manifest without targets issues no compile, archive or
\* link command and leaves no object and no artifact; unless the environment
\* fails it before the changed map is computed, it returns success, by the
\* early exit, in incremental and in non-incremental mode
C30_NoTargets ==
    AllKeys(config) = {} =>
        /\ status = EmptyMap /\ invoked = {} /\ cmds = EmptyMap
        /\ link_log = << >> /\ link_cmds = << >>
        /\ written = {} /\ artifacts = {}
        /\ \A o \in DOMAIN objects : objects[o] = 0
        /\ pc \notin {"compile"} \cup LinkPcs
        /\ pc = "idle" /\ result # "none" =>
              \/ result = "Ok" /\ PhaseNames = EarlyOrder
              \/ /\ result \in EnvironmentErrors
                 /\ phases[Len(phases)].outcome = "err"
                 /\ phases[Len(phases)].name \in {"load", "check", "prepare", "resolve", "detect"}

\* a non-incremental build of the manifest without targets has returned
\* success after an incremental build of it that returned success
C30_Witness ==
    /\ config = EmptyManifest
    /\ builds = 2 /\ prev.clean
    /\ ~incremental /\ pc = "idle" /\ result = "Ok"

\* the clean command has run after the last build and has returned success
CleanDone == pc = "idle" /\ cleaned.at = builds /\ cleaned.returned = "Ok"

\* C31: once clean has returned success nothing of the build of the
\* configuration that was built is left: no build directory, no hash store,
\* no object and no artifact; and clean of a project that was never built
\* returns success
C31_CleanRemovesBuild ==
    /\ CleanDone =>
          /\ ~build_dir
          /\ ~hash_file.exists
          /\ \A o \in DOMAIN objects : objects[o] = 0
          /\ artifacts = {}
    /\ cleaned.at = 0 => cleaned.returned = "Ok"

\* a first build that returned success, then a clean that returned success,
\* then a second build that has returned success
BuildCleanBuild ==
    /\ builds = 2 /\ pc = "idle" /\ result = "Ok"
    /\ cleaned.at = 1 /\ cleaned.built = "Ok" /\ cleaned.returned = "Ok"

\* C32: the build after build and clean leaves the artifacts the first build
\* left, and it has compiled every resolved source of every target and has
\* linked every target
C32_BuildCleanBuild ==
    BuildCleanBuild =>
        /\ artifacts = cleaned.had
        /\ DOMAIN changed_files = AllKeys(config)
        /\ \A k \in AllKeys(config) :
              /\ changed_files[k] = source_files[k]
              /\ \A i \in 1..Len(source_files[k]) :
                    <<k, i>> \in invoked /\ status[<<k, i>>] = "ok"
        /\ { link_cmds[i].key : i \in 1..Len(link_cmds) } = AllKeys(config)

\* the files that the patterns of the manifest name
PatternFiles ==
    UNION { UNION { Range(TargetOfKey(config, k).src[i]) :
                        i \in 1..Len(TargetOfKey(config, k).src) } :
            k \in AllKeys(config) }

\* this invocation is an incremental build that follows an incremental build
\* which returned Ok, and only files that no target names were modified in
\* between
RebuildAfterOtherEdit ==
    /\ builds >= 2 /\ prev.clean /\ incremental
    /\ prev.edited # {} /\ prev.edited \cap PatternFiles = {}

\* C33: an incremental build after the modification of a file that is not a
\* source of any target finds nothing changed and starts no compile task
C33_HeaderEditUndetected ==
    RebuildAfterOtherEdit =>
        /\ DOMAIN changed_files = {}
        /\ DOMAIN status = {} /\ invoked = {} /\ cmds = EmptyMap /\ written = {}
        /\ pc \notin {"compile"} \cup LinkPcs

\* src/m.c, which the manifest with the one executable does not name, was
\* modified, and the incremental build after it took the early exit
C33_Witness ==
    /\ RebuildAfterOtherEdit
    /\ config = AppManifest /\ prev.edited = {MC}
    /\ pc = "idle" /\ result = "Ok" /\ PhaseNames = EarlyOrder

\* this invocation has resolved a source that cannot be read and is past the
\* point where build() detects changes or passes the resolved map through
UnreadableSeen ==
    /\ edited = {}
    /\ \E f \in ResolvedSources : content[f] = Unreadable
    /\ \E i \in 1..Len(phases) : phases[i].name = "detect"

\* build() has returned from change detection with an error, an IO error
\* unless the environment failed it otherwise; the hash store is the one the
\* invocation started with and no compile, archive or link command was issued
FailedInDetection ==
    /\ pc = "idle"
    /\ phases[Len(phases)] = Phase("detect", "err")
    /\ faults = 0 => result = "IoError"
    /\ hash_file = hash_before /\ hash_write_pc = {}
    /\ status = EmptyMap /\ invoked = {} /\ cmds = EmptyMap /\ written = {}
    /\ link_log = << >> /\ link_cmds = << >>

ExitedNonZero == { t \in DOMAIN status : status[t] = "failed" }

\* the compile phase of this invocation has begun
CompilePhaseBegun == \E i \in 1..Len(phases) : phases[i].name = "compile"

\* C35: the keys of the error map are the sources of the tasks whose
\* compiler has exited non-zero in this run, each with the standard error of
\* one of these tasks; outside the compile phase nothing is inserted, and
\* compile_sources goes on to read the map only when no task is unfinished
C35_ErrorMap ==
    /\ CompilePhaseBegun =>
          /\ DOMAIN error_map = { TaskSource(t) : t \in ExitedNonZero }
          /\ \A s \in DOMAIN error_map :
                \E t \in ExitedNonZero : TaskSource(t) = s /\ error_map[s] = Stderr(t)
    /\ ~CompilePhaseBegun => error_map = EmptyMap
    /\ CompilePhaseOver => Unfinished = {}

\* the compilers of two targets have failed on the one source they share,
\* and a third task has compiled: the drained map has the one key
C35_Witness ==
    /\ CompilePhaseOver
    /\ Cardinality(ExitedNonZero) = 2
    /\ Cardinality(DOMAIN error_map) = 1
    /\ \E t \in DOMAIN status : status[t] = "ok"

RECURSIVE SumOver(_, _)
\* the sum of the values of the function f over the set keys
SumOver(f, keys) ==
    IF keys = {} THEN 0
    ELSE LET k == CHOOSE x \in keys : TRUE
         IN  f[k] + SumOver(f, keys \ {k})

\* the tasks of target k, and those of them that compiled
TasksOf(k) == { t \in DOMAIN status : t[1] = k }
Compiled(k) == { t \in TasksOf(k) : status[t] = "ok" }

\* no worker is inside its closure
Quiescent == Running = {}

\* the counters of the compile phase of this invocation: at a quiescent
\* point the global counter is the sum of the per-target counters, no
\* counter exceeds its total, and once the pool has drained each counter is
\* the number of its tasks that compiled
ProgressCounted ==
    CompilePhaseBegun =>
        /\ DOMAIN target_pb = DOMAIN changed_files
        /\ Quiescent => total_pb = SumOver(target_pb, DOMAIN target_pb)
        /\ total_pb <= Cardinality(DOMAIN status)
        /\ \A k \in DOMAIN target_pb : target_pb[k] <= Len(changed_files[k])
        /\ Unfinished = {} =>
              /\ \A k \in DOMAIN target_pb : target_pb[k] = Cardinality(Compiled(k))
              /\ total_pb = Cardinality({ t \in DOMAIN status : status[t] = "ok" })
              /\ total_pb = Cardinality(DOMAIN status) <=> FailedTasks = {}

\* within one invocation no counter ever decreases
ProgressMonotone ==
    builds' = builds =>
        /\ total_pb' >= total_pb
        /\ \A k \in DOMAIN target_pb :
              k \in DOMAIN target_pb' /\ target_pb'[k] >= target_pb[k]

\* C36: the global and the per-target progress counters only increase; at
\* every quiescent point the global counter is the sum of the per-target
\* counters; no counter exceeds its number of tasks; after the pool drains
\* each counter is the number of its tasks that compiled, so the global
\* counter equals the number of tasks exactly when no task failed
C36_ProgressCounters == []ProgressCounted /\ [][ProgressMonotone]_vars

\* the pool has drained with one of four tasks failed: the global counter
\* is 3 of 4
C36_Witness ==
    /\ pc = "compile" /\ Unfinished = {}
    /\ Cardinality(DOMAIN status) = 4
    /\ Cardinality(FailedTasks) = 1
    /\ total_pb = 3

\* C37: whenever build() has returned success, the object file of every
\* resolved source holds what the compiler makes of the source's current
\* contents
C37_ObjectsFresh ==
    (pc = "idle" /\ result = "Ok" /\ edited = {}) =>
        \A s \in ResolvedSources : objects[ObjectFile(s)] = content[s]

\* C38: whenever build() has returned success, the artifact of every target
\* of the manifest exists in the build directory
C38_ArtifactsAfterSuccess ==
    (pc = "idle" /\ result = "Ok") => artifacts = AllKeys(config)

\* C39: no two distinct resolved sources have the same object path
C39_ObjectPathsInjective ==
    \A s1, s2 \in ResolvedSources : s1 # s2 => ObjectFile(s1) # ObjectFile(s2)

====
